---- MODULE Spec2Model ----
(***************************************************************************)
(* Drift detection of aayostem/mlops-drift-detection:                      *)
(*   src/src/monitoring/advanced_drift_detector.py  MultiModalDriftDetector*)
(*   src/src/monitoring/drift/drift_service.py      DriftDetectionService  *)
(*                                                                         *)
(* Numbers.  Weights, scores, thresholds and p-values are Python floats    *)
(* with at most two decimals in the source; the model counts them in       *)
(* hundredths (0.25 is 25).  A product score * weight is then in           *)
(* ten-thousandths, and the quotient weighted_score / total_weight is kept *)
(* as an exact fraction [num, den] in hundredths.  The vote sum of every   *)
(* one of the 64 subsets of the six weights compares with 0.5 in IEEE      *)
(* doubles exactly as it does in exact arithmetic, so the integer sum is   *)
(* faithful for the vote.                                                  *)
(***************************************************************************)
EXTENDS Integers, Sequences, FiniteSets, TLC

VARIABLES
    config,         \* MultiModalDriftDetector.config, as given to __init__
    reference,      \* reference DataFrame: column -> dtype
    current,        \* current DataFrame: its set of columns
    target_column,  \* detect_drift's target_column argument
    sameData,       \* whether current_data is reference_data (the same rows)
    pc,             \* position inside MultiModalDriftDetector.detect_drift
    results,        \* detect_drift's local dict: method -> result dict
    acc,            \* _ensemble_detection's locals at its return
    returned,       \* {} until detect_drift returns, then {the DriftResult}
    escaped,        \* {} or {the exception that left detect_drift}
    raisedIn,       \* methods whose fitting / statistical routine has raised
    \* DriftDetectionService (drift_service.py)
    reference_data_cache,  \* self.reference_data_cache: id -> DataFrame object
    detectors,      \* self.detectors: model_name -> detector (its config)
    spc,            \* position inside DriftDetectionService.detect_drift
    request,        \* the DriftDetectionRequest being handled
    reference_df,   \* detect_drift's local: {} or {the DataFrame object}
    svcResult,      \* detect_drift's local result: {} or {the DriftResult}
    response,       \* {} or {the DriftDetectionResponse returned}
    svcEscaped,     \* {} or {the exception that left the service call}
    calls,          \* detect calls started so far
    sourceContacts, \* times the reference-data source (MLflow) was contacted
    nextFrame,      \* DataFrame objects created so far by load_reference_data
    gauges,         \* Prometheus drift_score / drift_detected, per model_name
    mlflowRuns,     \* drift-detection runs logged to MLflow
    eventLoop       \* the asyncio loop serving the endpoint: its tasks

detVars == <<config, reference, current, target_column, sameData, pc,
             results, acc, returned, escaped, raisedIn>>

svcVars == <<reference_data_cache, detectors, spc, request, reference_df,
             svcResult, response, svcEscaped, calls, sourceContacts, nextFrame,
             gauges, mlflowRuns, eventLoop>>

vars == <<detVars, svcVars>>

----------------------------------------------------------------------------
(* Input domains *)

Methods ==
    {"ks_test", "psi", "mmd", "isolation_forest", "covariance_drift",
     "classifier_drift"}

\* Insertion order of the results dict, which is the iteration order of
\* results.items() in _ensemble_detection.
MethodOrder ==
    <<"ks_test", "psi", "mmd", "isolation_forest", "covariance_drift",
      "classifier_drift">>

Columns == {"f1", "f2"}

\* reference.columns is ordered; the per-column loops follow it.
ColumnOrder == <<"f1", "f2">>

Dtypes == {"float64", "object"}

NumericDtypes == {"float64", "int64"}

\* A DataFrame of the reference: some of the columns, each with a dtype.
ReferenceFrames ==
    UNION {[cs -> Dtypes] : cs \in SUBSET Columns}

CurrentFrames == SUBSET Columns

\* target_column: Optional[str]; the empty string is falsy like None.
TargetColumns == {"None", "", "target"}

Truthy(s) == s # "None" /\ s # ""

EmptyDict == [k \in {} |-> 0]

Put(d, k, v) == [x \in DOMAIN d \cup {k} |-> IF x = k THEN v ELSE d[x]]

\* Detector configurations (method name -> weight): the empty dict of the
\* request default, or a weight of 0 for one method.
DetectorConfigs == {EmptyDict} \cup {Put(EmptyDict, m, 0) : m \in Methods}

ModelNames == {"m1", "m2"}

\* Reference ids a request can carry; the data source (MLflow) knows KnownIds.
RefIds == {"ref1", "ref2"}
KnownIds == {"ref1"}

\* detection_config of a request: the default {} or one that zeroes a weight.
RequestConfigs == {EmptyDict, Put(EmptyDict, "psi", 0)}

\* Column sets of a request's current_data.
RequestFrames == {{"f1"}, {"f1", "f2"}}

Requests ==
    [model_name : ModelNames, current_data : RequestFrames,
     reference_data_id : RefIds, detection_config : RequestConfigs]

NoRequest ==
    [model_name |-> "", current_data |-> {}, reference_data_id |-> "",
     detection_config |-> EmptyDict]

\* Detect calls the model follows.
MaxCalls == 2

\* Values the statistical libraries hand back, in hundredths.
\* (KS statistic, p-value) pairs: one above and one below the 0.05 threshold.
KsPairs == {[stat |-> 5, p |-> 50], [stat |-> 40, p |-> 1]}
PsiValues == {10, 11, 1000}
MmdValues == {5, 6}
AnomalyRatios == {15, 16}
OutlierRatios == {20, 21}
AucValues == {70, 71}

\* What a library call does: returns a value or raises.
Ok(v) == [kind |-> "ok", value |-> v]
Raise(e) == [kind |-> e, value |-> 0]

KsLib == {Ok(v) : v \in KsPairs} \cup {Raise("ValueError")}
PsiLib == {Ok(v) : v \in PsiValues} \cup {Raise("ValueError")}
MmdLib == {Ok(v) : v \in MmdValues} \cup {Raise("ImportError"), Raise("ValueError")}
IsoLib == {Ok(v) : v \in AnomalyRatios} \cup {Raise("ValueError")}
CovLib == {Ok(v) : v \in OutlierRatios} \cup {Raise("ValueError")}
ClfLib == {Ok(v) : v \in AucValues} \cup {Raise("KeyError")}

\* What the library calls do when both arguments hold the same rows.
\* ks_2samp(x, x) has statistic 0 and p-value 1; equal histograms give a PSI
\* of 0; equal samples give equal kernel means, an MMD of 0; a forest or an
\* envelope fitted with contamination 0.1 flags at most a tenth of its own
\* training rows; the classifier sees every row under both labels, an AUC
\* of 0.5.  The calls still raise on rows they cannot take.
KsSame == {Ok([stat |-> 0, p |-> 100]), Raise("ValueError")}
PsiSame == {Ok(0), Raise("ValueError")}
MmdSame == {Ok(0), Raise("ImportError"), Raise("ValueError")}
IsoSame == {Ok(0), Ok(10), Raise("ValueError")}
CovSame == {Ok(0), Ok(10), Raise("ValueError")}
ClfSame == {Ok(50), Raise("KeyError")}

\* The outcomes of a library call in the run at hand.
LibFor(general, same) == IF sameData THEN same ELSE general

\* What a Python function does: returns a value or lets an exception out.
Return(v) == [raised |-> FALSE, exc |-> "", value |-> v]
Throw(e) == [raised |-> TRUE, exc |-> e, value |-> EmptyDict]

----------------------------------------------------------------------------
(* The detectors *)

MaxOf(S) == CHOOSE x \in S : \A y \in S : y <= x

Image(f) == {f[x] : x \in DOMAIN f}

\* The loop "for column in reference.columns: if dtype is numeric: ..." of
\* _ks_test_drift and _psi_drift.  lib[c] is what the library call on column
\* c does.  current[column] raises KeyError for a column current lacks; in
\* _ks_test_drift it is evaluated before the library call (an argument of
\* ks_2samp), in _psi_drift after np.histogram_bin_edges on the reference.
RECURSIVE ColumnLoop(_, _, _, _, _, _)
ColumnLoop(i, ref, cur, lib, keyFirst, out) ==
    IF i > Len(ColumnOrder) THEN Return(out)
    ELSE LET column == ColumnOrder[i] IN
         IF column \notin DOMAIN ref \/ ref[column] \notin NumericDtypes
         THEN ColumnLoop(i + 1, ref, cur, lib, keyFirst, out)
         ELSE IF keyFirst /\ column \notin cur THEN Throw("KeyError")
         ELSE IF lib[column].kind # "ok" THEN Throw(lib[column].kind)
         ELSE IF column \notin cur THEN Throw("KeyError")
         ELSE ColumnLoop(i + 1, ref, cur, lib, keyFirst,
                         Put(out, column, lib[column].value))

_ks_test_drift(ref, cur, lib) ==
    LET r == ColumnLoop(1, ref, cur, lib, TRUE, EmptyDict) IN
    IF r.raised THEN r
    ELSE LET drift_scores == [c \in DOMAIN r.value |-> r.value[c].stat]
             p_values == [c \in DOMAIN r.value |-> r.value[c].p]
         IN Return([drift_detected |-> \E c \in DOMAIN p_values : p_values[c] < 5,
                    drift_score |-> IF DOMAIN drift_scores # {}
                                    THEN MaxOf(Image(drift_scores)) ELSE 0,
                    p_values |-> p_values,
                    method |-> "ks_test"])

\* Mutant of _psi_drift: drift is reported from the "significant" band of
\* 0.25 on.
_psi_drift_significant(ref, cur, lib) ==
    LET r == ColumnLoop(1, ref, cur, lib, FALSE, EmptyDict) IN
    IF r.raised THEN r
    ELSE LET psi_scores == r.value
         IN Return([drift_detected |-> \E c \in DOMAIN psi_scores : psi_scores[c] > 25,
                    drift_score |-> IF DOMAIN psi_scores # {}
                                    THEN MaxOf(Image(psi_scores)) ELSE 0,
                    psi_scores |-> psi_scores,
                    method |-> "psi"])

_psi_drift(ref, cur, lib) ==
    LET r == ColumnLoop(1, ref, cur, lib, FALSE, EmptyDict) IN
    IF r.raised THEN r
    ELSE LET psi_scores == r.value
         IN Return([drift_detected |-> \E c \in DOMAIN psi_scores : psi_scores[c] > 10,
                    drift_score |-> IF DOMAIN psi_scores # {}
                                    THEN MaxOf(Image(psi_scores)) ELSE 0,
                    psi_scores |-> psi_scores,
                    method |-> "psi"])

ErrorResult(method, msg) ==
    [drift_detected |-> FALSE, drift_score |-> 0, method |-> method, error |-> msg]

\* try: ... except ImportError: any other exception leaves the method.
_mmd_drift(lib) ==
    IF lib.kind = "ok"
    THEN Return([drift_detected |-> lib.value > 5, drift_score |-> lib.value,
                 method |-> "mmd"])
    ELSE IF lib.kind = "ImportError"
    THEN Return(ErrorResult("mmd", "scikit-learn not available"))
    ELSE Throw(lib.kind)

\* No try block.
_isolation_forest_drift(lib) ==
    IF lib.kind = "ok"
    THEN Return([drift_detected |-> lib.value > 15, drift_score |-> lib.value,
                 method |-> "isolation_forest"])
    ELSE Throw(lib.kind)

\* Mutant of _covariance_drift: the except block is missing.
_covariance_drift_uncaught(lib) ==
    IF lib.kind = "ok"
    THEN Return([drift_detected |-> lib.value > 20, drift_score |-> lib.value,
                 method |-> "covariance_drift"])
    ELSE Throw(lib.kind)

\* try: ... except Exception as e: error = str(e).
_covariance_drift(lib) ==
    IF lib.kind = "ok"
    THEN Return([drift_detected |-> lib.value > 20, drift_score |-> lib.value,
                 method |-> "covariance_drift"])
    ELSE Return(ErrorResult("covariance_drift", lib.kind))

_classifier_drift(lib) ==
    IF lib.kind = "ok"
    THEN Return([drift_detected |-> lib.value > 70, drift_score |-> lib.value,
                 method |-> "classifier_drift"])
    ELSE Return(ErrorResult("classifier_drift", lib.kind))

----------------------------------------------------------------------------
(* The aggregator *)

\* Mutant of weights: the anomaly, covariance and classifier detectors hold
\* the larger share.
weights_heavy_tail ==
    [ks_test |-> 10, psi |-> 10, mmd |-> 10, isolation_forest |-> 30,
     covariance_drift |-> 20, classifier_drift |-> 20]

\* The weights dict of _ensemble_detection, in hundredths.
weights ==
    [ks_test |-> 20, psi |-> 25, mmd |-> 20, isolation_forest |-> 15,
     covariance_drift |-> 10, classifier_drift |-> 10]

\* weights.get(method, 0.1)
WeightOf(method) == IF method \in DOMAIN weights THEN weights[method] ELSE 10

\* result.get("drift_detected", False)
GetFlag(result) ==
    IF "drift_detected" \in DOMAIN result THEN result.drift_detected ELSE FALSE

ZeroAcc ==
    [total_weight |-> 0, weighted_score |-> 0, drift_votes |-> 0,
     features_affected |-> {}]

\* Mutant of LoopBody: a PSI score of exactly 0.1 marks the feature.
LoopBody_atleast(a, method, result) ==
    [drift_votes |->
        IF GetFlag(result) THEN a.drift_votes + WeightOf(method) ELSE a.drift_votes,
     weighted_score |->
        IF "drift_score" \in DOMAIN result
        THEN a.weighted_score + result.drift_score * WeightOf(method)
        ELSE a.weighted_score,
     total_weight |->
        IF "drift_score" \in DOMAIN result
        THEN a.total_weight + WeightOf(method) ELSE a.total_weight,
     features_affected |->
        IF "psi_scores" \in DOMAIN result
        THEN a.features_affected
                \cup {f \in DOMAIN result.psi_scores : result.psi_scores[f] >= 10}
        ELSE a.features_affected]

\* The body of "for method, result in results.items()".
LoopBody(a, method, result) ==
    [drift_votes |->
        IF GetFlag(result) THEN a.drift_votes + WeightOf(method) ELSE a.drift_votes,
     weighted_score |->
        IF "drift_score" \in DOMAIN result
        THEN a.weighted_score + result.drift_score * WeightOf(method)
        ELSE a.weighted_score,
     total_weight |->
        IF "drift_score" \in DOMAIN result
        THEN a.total_weight + WeightOf(method) ELSE a.total_weight,
     features_affected |->
        IF "psi_scores" \in DOMAIN result
        THEN a.features_affected
                \cup {f \in DOMAIN result.psi_scores : result.psi_scores[f] > 10}
        ELSE a.features_affected]

RECURSIVE EnsembleLoop(_, _, _)
EnsembleLoop(i, res, a) ==
    IF i > Len(MethodOrder) THEN a
    ELSE IF MethodOrder[i] \notin DOMAIN res THEN EnsembleLoop(i + 1, res, a)
    ELSE EnsembleLoop(i + 1, res, LoopBody(a, MethodOrder[i], res[MethodOrder[i]]))

\* Mutant of EnsembleScore: the division is done whatever total_weight is.
EnsembleScore_unguarded(a) == [num |-> a.weighted_score, den |-> a.total_weight]

\* Mutant of EnsembleScore: the division by total_weight is missing.
EnsembleScore_unnormalised(a) == [num |-> a.weighted_score, den |-> 1]

\* weighted_score / total_weight if total_weight > 0 else 0, as a fraction of
\* hundredths.
EnsembleScore(a) ==
    IF a.total_weight > 0 THEN [num |-> a.weighted_score, den |-> a.total_weight]
    ELSE [num |-> 0, den |-> 1]

\* Mutant of EnsembleDrift: a vote of exactly 0.5 counts as drift.
EnsembleDrift_atleast(a) == a.drift_votes >= 50

\* drift_votes > 0.5
EnsembleDrift(a) == a.drift_votes > 50

\* Mutant of Confidence: the score is passed on unclamped.
Confidence_unclamped(score) == score

\* min(ensemble_score, 1.0): Python's min keeps its first argument unless the
\* second is strictly smaller.
Confidence(score) ==
    IF 100 * score.den < score.num THEN [num |-> 100, den |-> 1] ELSE score

\* Mutant of _determine_drift_type: the anomaly detector counts as covariate.
_determine_drift_type_anomaly(res) ==
    LET covariate_drift ==
            \E method \in {"ks_test", "psi", "mmd", "isolation_forest"} :
                method \in DOMAIN res /\ res[method].drift_detected
        concept_drift ==
            IF "classifier_drift" \in DOMAIN res
            THEN GetFlag(res["classifier_drift"]) ELSE FALSE
    IN IF covariate_drift /\ concept_drift THEN "covariate_and_concept_drift"
       ELSE IF covariate_drift THEN "covariate_drift"
       ELSE IF concept_drift THEN "concept_drift"
       ELSE "no_drift"

_determine_drift_type(res) ==
    LET covariate_drift ==
            \E method \in {"ks_test", "psi", "mmd"} :
                method \in DOMAIN res /\ res[method].drift_detected
        concept_drift ==
            IF "classifier_drift" \in DOMAIN res
            THEN GetFlag(res["classifier_drift"]) ELSE FALSE
    IN IF covariate_drift /\ concept_drift THEN "covariate_and_concept_drift"
       ELSE IF covariate_drift THEN "covariate_drift"
       ELSE IF concept_drift THEN "concept_drift"
       ELSE "no_drift"

_ensemble_detection(res) ==
    LET a == EnsembleLoop(1, res, ZeroAcc) IN
    [drift_detected |-> EnsembleDrift(a),
     drift_score |-> EnsembleScore(a),
     drift_type |-> _determine_drift_type(res),
     features_affected |-> a.features_affected,
     confidence |-> Confidence(EnsembleScore(a)),
     metadata |-> [individual_results |-> res]]

----------------------------------------------------------------------------
(* MultiModalDriftDetector.detect_drift, one statement at a time *)

\* A detector call: r is what the method does, routineRaised whether its
\* fitting / statistical routine raised (the KeyError of a column lookup is
\* not one), next the statement that follows.
Call(method, r, routineRaised, next) ==
    /\ raisedIn' = IF routineRaised THEN raisedIn \cup {method} ELSE raisedIn
    /\ IF r.raised
       THEN /\ pc' = "raised"
            /\ escaped' = {[method |-> method, exc |-> r.exc]}
            /\ UNCHANGED results
       ELSE /\ pc' = next
            /\ results' = Put(results, method, r.value)
            /\ UNCHANGED escaped
    /\ UNCHANGED <<config, reference, current, target_column, sameData, acc,
                   returned>>
    /\ UNCHANGED svcVars

StepKs ==
    /\ pc = "ks_test"
    /\ \E lib \in [Columns -> LibFor(KsLib, KsSame)] :
          LET r == _ks_test_drift(reference, current, lib)
          IN Call("ks_test", r, r.raised /\ r.exc # "KeyError", "psi")

StepPsi ==
    /\ pc = "psi"
    /\ \E lib \in [Columns -> LibFor(PsiLib, PsiSame)] :
          LET r == _psi_drift(reference, current, lib)
          IN Call("psi", r, r.raised /\ r.exc # "KeyError", "mmd")

StepMmd ==
    /\ pc = "mmd"
    /\ \E lib \in LibFor(MmdLib, MmdSame) :
          Call("mmd", _mmd_drift(lib), lib.kind # "ok", "isolation_forest")

\* Mutant of StepIso: the aggregation follows at once.
StepIso_early ==
    /\ pc = "isolation_forest"
    /\ \E lib \in LibFor(IsoLib, IsoSame) :
          Call("isolation_forest", _isolation_forest_drift(lib), lib.kind # "ok",
               "ensemble")

StepIso ==
    /\ pc = "isolation_forest"
    /\ \E lib \in LibFor(IsoLib, IsoSame) :
          Call("isolation_forest", _isolation_forest_drift(lib), lib.kind # "ok",
               "covariance_drift")

StepCov ==
    /\ pc = "covariance_drift"
    /\ \E lib \in LibFor(CovLib, CovSame) :
          Call("covariance_drift", _covariance_drift(lib), lib.kind # "ok",
               "classifier_drift")

\* Mutant of StepClf: the classifier runs whatever target_column is.
StepClf_always ==
    /\ pc = "classifier_drift"
    /\ \E lib \in LibFor(ClfLib, ClfSame) :
          Call("classifier_drift", _classifier_drift(lib), lib.kind # "ok",
               "ensemble")

\* if target_column: results["classifier_drift"] = ...
StepClf ==
    /\ pc = "classifier_drift"
    /\ IF Truthy(target_column)
       THEN \E lib \in LibFor(ClfLib, ClfSame) :
               Call("classifier_drift", _classifier_drift(lib), lib.kind # "ok",
                    "ensemble")
       ELSE /\ pc' = "ensemble"
            /\ UNCHANGED <<config, reference, current, target_column, sameData,
                           results, acc, returned, escaped, raisedIn>>
            /\ UNCHANGED svcVars

\* return self._ensemble_detection(results, reference_data, current_data)
StepEnsemble ==
    /\ pc = "ensemble"
    /\ pc' = "done"
    /\ acc' = EnsembleLoop(1, results, ZeroAcc)
    /\ returned' = {_ensemble_detection(results)}
    /\ UNCHANGED <<config, reference, current, target_column, sameData,
                   results, escaped, raisedIn>>
    /\ UNCHANGED svcVars

\* The loop with no task: none submitted, none queued, none parked at an
\* await, none running.
IdleLoop == [submitted |-> {}, queued |-> {}, parked |-> {}, running |-> "none"]

\* DriftDetectionService.__init__, and no call in progress.
SvcInit ==
    /\ reference_data_cache = EmptyDict
    /\ detectors = EmptyDict
    /\ spc = "idle"
    /\ request = NoRequest
    /\ reference_df = {}
    /\ svcResult = {}
    /\ response = {}
    /\ svcEscaped = {}
    /\ calls = 0
    /\ sourceContacts = 0
    /\ nextFrame = 0
    /\ gauges = EmptyDict
    /\ mlflowRuns = 0
    /\ eventLoop = IdleLoop

Init ==
    /\ config \in DetectorConfigs
    /\ reference \in ReferenceFrames
    /\ current \in CurrentFrames
    /\ target_column \in TargetColumns
    /\ sameData = FALSE
    /\ pc = "ks_test"
    /\ results = EmptyDict
    /\ acc = ZeroAcc
    /\ returned = {}
    /\ escaped = {}
    /\ raisedIn = {}
    /\ SvcInit

Next ==
    \/ StepKs
    \/ StepPsi
    \/ StepMmd
    \/ StepIso
    \/ StepCov
    \/ StepClf
    \/ StepEnsemble

Spec == Init /\ [][Next]_vars

\* detect_drift(D, D): one dataset is given as reference and as current.
InitSame ==
    /\ config \in DetectorConfigs
    /\ reference \in ReferenceFrames
    /\ current = DOMAIN reference
    /\ target_column \in TargetColumns
    /\ sameData = TRUE
    /\ pc = "ks_test"
    /\ results = EmptyDict
    /\ acc = ZeroAcc
    /\ returned = {}
    /\ escaped = {}
    /\ raisedIn = {}
    /\ SvcInit

SpecSame == InitSame /\ [][Next]_vars

----------------------------------------------------------------------------
(* _ensemble_detection as a function of its results dict *)

\* The result dicts each detector can build, and the error-shaped dict of
\* the except blocks for every method name.
ResultsOf(method) ==
    CASE method = "ks_test" ->
            {r.value : r \in {x \in {_ks_test_drift(ref, cur, lib) :
                                        ref \in ReferenceFrames,
                                        cur \in CurrentFrames,
                                        lib \in [Columns -> KsLib]} : ~x.raised}}
      [] method = "psi" ->
            {r.value : r \in {x \in {_psi_drift(ref, cur, lib) :
                                        ref \in ReferenceFrames,
                                        cur \in CurrentFrames,
                                        lib \in [Columns -> PsiLib]} : ~x.raised}}
      [] method = "mmd" ->
            {r.value : r \in {x \in {_mmd_drift(lib) : lib \in MmdLib} : ~x.raised}}
      [] method = "isolation_forest" ->
            {r.value : r \in {x \in {_isolation_forest_drift(lib) : lib \in IsoLib} :
                                ~x.raised}}
      [] method = "covariance_drift" ->
            {r.value : r \in {x \in {_covariance_drift(lib) : lib \in CovLib} :
                                ~x.raised}}
      [] method = "classifier_drift" ->
            {r.value : r \in {x \in {_classifier_drift(lib) : lib \in ClfLib} :
                                ~x.raised}}

\* For each method: no entry ({}) or one entry ({dict}); a method without an
\* except block of its own gets the error-shaped dict too.
Entries(method) ==
    {{}} \cup {{d} : d \in ResultsOf(method)}
         \cup {{ErrorResult(method, "ValueError")} :
                    x \in {d \in {0} : \A r \in ResultsOf(method) :
                                            "error" \notin DOMAIN r}}

ResultDicts ==
    {[m \in {x \in Methods : pick[x] # {}} |-> CHOOSE d \in pick[m] : TRUE] :
        pick \in [ks_test : Entries("ks_test"), psi : Entries("psi"),
                  mmd : Entries("mmd"),
                  isolation_forest : Entries("isolation_forest"),
                  covariance_drift : Entries("covariance_drift"),
                  classifier_drift : Entries("classifier_drift")]}

InitAgg ==
    /\ config = EmptyDict
    /\ reference = EmptyDict
    /\ current = {}
    /\ target_column = "None"
    /\ sameData = FALSE
    /\ pc = "ensemble"
    /\ results \in ResultDicts
    /\ acc = ZeroAcc
    /\ returned = {}
    /\ escaped = {}
    /\ raisedIn = {}
    /\ SvcInit

SpecAgg == InitAgg /\ [][StepEnsemble]_vars

----------------------------------------------------------------------------
(* DriftDetectionService *)

\* What every library call of one detection run does.
DetectorLibs ==
    [ks : [Columns -> KsLib], psi : [Columns -> PsiLib], mmd : MmdLib,
     isolation_forest : IsoLib, covariance_drift : CovLib,
     classifier_drift : ClfLib]

\* The library calls of a detection run started by the service.  The
\* reference it hands over is the column-less placeholder, so the per-column
\* calls of ks_test and psi are never reached, and without a target column
\* neither is the classifier.
SvcLibs ==
    [ks : {[c \in Columns |-> Raise("ValueError")]},
     psi : {[c \in Columns |-> Raise("ValueError")]},
     mmd : {Ok(6), Raise("ValueError")},
     isolation_forest : {Ok(16)},
     covariance_drift : {Ok(21), Raise("ValueError")},
     classifier_drift : {Ok(71), Raise("KeyError")}]

\* MultiModalDriftDetector.detect_drift as one call.
detect_drift(ref, cur, target, lib) ==
    LET ks == _ks_test_drift(ref, cur, lib.ks) IN
    IF ks.raised THEN Throw(ks.exc) ELSE
    LET psi == _psi_drift(ref, cur, lib.psi) IN
    IF psi.raised THEN Throw(psi.exc) ELSE
    LET mmd == _mmd_drift(lib.mmd) IN
    IF mmd.raised THEN Throw(mmd.exc) ELSE
    LET iso == _isolation_forest_drift(lib.isolation_forest) IN
    IF iso.raised THEN Throw(iso.exc) ELSE
    LET cov == _covariance_drift(lib.covariance_drift)
        clf == _classifier_drift(lib.classifier_drift)
        five == [ks_test |-> ks.value, psi |-> psi.value, mmd |-> mmd.value,
                 isolation_forest |-> iso.value, covariance_drift |-> cov.value]
    IN Return(_ensemble_detection(
                IF Truthy(target) THEN Put(five, "classifier_drift", clf.value)
                ELSE five))

\* The words of a drift_type, to decide Python's substring test `a in b`.
Words(s) ==
    CASE s = "covariate_drift" -> <<"covariate", "drift">>
      [] s = "concept_drift" -> <<"concept", "drift">>
      [] s = "covariate_and_concept_drift" -> <<"covariate", "and", "concept", "drift">>
      [] s = "no_drift" -> <<"no", "drift">>

\* needle in hay
Contains(hay, needle) ==
    \E i \in 1..(Len(Words(hay)) - Len(Words(needle)) + 1) :
        SubSeq(Words(hay), i, i + Len(Words(needle)) - 1) = Words(needle)

Segment(kind, n, features) == [seg |-> kind, n |-> n, features |-> features]

\* Mutant of generate_recommendation: the early return for a result without
\* drift is missing.
generate_recommendation_noreturn(r) ==
    LET retrain ==
            IF Contains(r.drift_type, "covariate_drift")
            THEN <<Segment("retrain", Cardinality(r.features_affected), {})>>
            ELSE <<>>
        concept ==
            IF Contains(r.drift_type, "concept_drift")
            THEN <<Segment("update_model", 0, {})>> ELSE <<>>
        urgent ==
            IF r.drift_score.num > 80 * r.drift_score.den
            THEN <<Segment("urgent", 0, {})>> ELSE <<>>
        focus ==
            IF r.features_affected # {}
            THEN <<Segment("focus", 0, r.features_affected)>> ELSE <<>>
        recommendations == retrain \o concept \o urgent \o focus
    IN IF recommendations # <<>> THEN recommendations
       ELSE <<Segment("monitor_closely", 0, {})>>

\* generate_recommendation: the list of segments that " | ".join glues, or
\* the single fixed sentence.
generate_recommendation(r) ==
    IF ~r.drift_detected THEN <<Segment("no_action", 0, {})>>
    ELSE LET retrain ==
                 IF Contains(r.drift_type, "covariate_drift")
                 THEN <<Segment("retrain", Cardinality(r.features_affected), {})>>
                 ELSE <<>>
             concept ==
                 IF Contains(r.drift_type, "concept_drift")
                 THEN <<Segment("update_model", 0, {})>> ELSE <<>>
             urgent ==
                 IF r.drift_score.num > 80 * r.drift_score.den
                 THEN <<Segment("urgent", 0, {})>> ELSE <<>>
             focus ==
                 IF r.features_affected # {}
                 THEN <<Segment("focus", 0, r.features_affected)>> ELSE <<>>
             recommendations == retrain \o concept \o urgent \o focus
         IN IF recommendations # <<>> THEN recommendations
            ELSE <<Segment("monitor_closely", 0, {})>>

\* A request arrives at detect_drift_endpoint; current_df is built.
SvcRequest ==
    /\ spc = "idle"
    /\ calls < MaxCalls
    /\ \E req \in Requests : request' = req
    /\ calls' = calls + 1
    /\ spc' = "load"
    /\ reference_df' = {}
    /\ svcResult' = {}
    /\ response' = {}
    /\ svcEscaped' = {}
    /\ UNCHANGED <<reference_data_cache, detectors, sourceContacts, nextFrame,
                   gauges, mlflowRuns, eventLoop>>
    /\ UNCHANGED detVars

\* Mutant of load_reference_data: the cache is not consulted.
load_reference_data_nocache(reference_data_id) ==
    /\ spc' = "fetch"
    /\ UNCHANGED <<reference_data_cache, reference_df, sourceContacts,
                   nextFrame, svcEscaped>>

\* reference_df = await self.load_reference_data(request.reference_data_id):
\* the cache lookup, which returns the cached object on a hit.
load_reference_data(reference_data_id) ==
    IF reference_data_id \in DOMAIN reference_data_cache
    THEN /\ reference_df' = {reference_data_cache[reference_data_id]}
         /\ spc' = "get_detector"
         /\ UNCHANGED <<reference_data_cache, sourceContacts, nextFrame, svcEscaped>>
    ELSE /\ spc' = "fetch"
         /\ UNCHANGED <<reference_data_cache, reference_df, sourceContacts,
                        nextFrame, svcEscaped>>

\* The call is over (a return or an exception): its locals are gone and the
\* loop runs no task.
EndCall ==
    /\ spc' = "idle"
    /\ request' = NoRequest
    /\ reference_df' = {}
    /\ svcResult' = {}
    /\ eventLoop' = [eventLoop EXCEPT !.running = "none"]

\* load_reference_data after a miss: the try block that contacts the source,
\* builds the DataFrame and stores it in the cache; an exception is logged
\* and raised again.
fetch_reference_data(reference_data_id) ==
    /\ sourceContacts' = sourceContacts + 1
    /\ \E clientOk \in BOOLEAN :
          IF clientOk
          THEN LET frame == [object |-> nextFrame + 1, columns |-> EmptyDict]
               IN /\ nextFrame' = nextFrame + 1
                  /\ reference_data_cache' =
                         Put(reference_data_cache, reference_data_id, frame)
                  /\ reference_df' = {frame}
                  /\ spc' = "get_detector"
                  /\ UNCHANGED <<svcEscaped, request, svcResult, eventLoop>>
          ELSE /\ svcEscaped' = {[at |-> "load", exc |-> "Exception"]}
               /\ EndCall
               /\ UNCHANGED <<reference_data_cache, nextFrame>>

SvcLoad ==
    /\ spc = "load"
    /\ load_reference_data(request.reference_data_id)
    /\ UNCHANGED <<detectors, request, svcResult, response, calls, gauges,
                   mlflowRuns, eventLoop>>
    /\ UNCHANGED detVars

SvcFetch ==
    /\ spc = "fetch"
    /\ fetch_reference_data(request.reference_data_id)
    /\ UNCHANGED <<detectors, response, calls, gauges, mlflowRuns>>
    /\ UNCHANGED detVars

\* Mutant of SvcGetDetector: a detector is built for every request.
SvcGetDetector_replace ==
    /\ spc = "get_detector"
    /\ detectors' =
          Put(detectors, request.model_name,
              [config |-> request.detection_config, created_in |-> calls])
    /\ spc' = "detect"
    /\ UNCHANGED <<reference_data_cache, request, reference_df, svcResult,
                   response, svcEscaped, calls, sourceContacts, nextFrame, gauges,
                   mlflowRuns, eventLoop>>
    /\ UNCHANGED detVars

\* detector = self.detectors.get(model_name); created when None.  A detector
\* object is told apart by the call that built it.
SvcGetDetector ==
    /\ spc = "get_detector"
    /\ detectors' =
          IF request.model_name \in DOMAIN detectors THEN detectors
          ELSE Put(detectors, request.model_name,
                   [config |-> request.detection_config, created_in |-> calls])
    /\ spc' = "detect"
    /\ UNCHANGED <<reference_data_cache, request, reference_df, svcResult,
                   response, svcEscaped, calls, sourceContacts, nextFrame, gauges,
                   mlflowRuns, eventLoop>>
    /\ UNCHANGED detVars

\* Mutant of detect_drift_frames: the reference is labelled in place, which
\* leaves a new column in the caller's frame.
detect_drift_frames_inplace(ref, cur) ==
    [reference |-> Put(ref, "f1", "float64"), current |-> cur]

\* The two frames as detect_drift leaves them.  Every method reads its
\* arguments through dropna(), sample(), drop(columns=...) without inplace,
\* fit() and predict(), which build new objects: the frames keep their
\* columns.
detect_drift_frames(ref, cur) ==
    [reference |-> ref, current |-> cur]

\* Mutant of SvcDetect: the service hands a target column to the detector.
SvcDetect_target ==
    /\ spc = "detect"
    /\ \E lib \in SvcLibs, df \in reference_df :
          LET r == detect_drift(df.columns, request.current_data, "target", lib)
              frames == detect_drift_frames(df.columns, request.current_data)
              after == [df EXCEPT !.columns = frames.reference]
          IN /\ reference_data_cache' =
                   [id \in DOMAIN reference_data_cache |->
                      IF reference_data_cache[id].object = df.object THEN after
                      ELSE reference_data_cache[id]]
             /\ IF r.raised
                THEN /\ svcEscaped' = {[at |-> "detect", exc |-> r.exc]}
                     /\ EndCall
                ELSE /\ svcResult' = {r.value}
                     /\ spc' = "metrics"
                     /\ reference_df' = {after}
                     /\ request' = [request EXCEPT !.current_data = frames.current]
                     /\ UNCHANGED <<svcEscaped, eventLoop>>
    /\ UNCHANGED <<detectors, response, calls, sourceContacts, nextFrame,
                   gauges, mlflowRuns>>
    /\ UNCHANGED detVars

\* result = detector.detect_drift(reference_df, current_df).  reference_df
\* is the cached object itself, so what the detector does to it shows in
\* the cache; current_df holds the request's rows.
SvcDetect ==
    /\ spc = "detect"
    /\ \E lib \in SvcLibs, df \in reference_df :
          LET r == detect_drift(df.columns, request.current_data, "None", lib)
              frames == detect_drift_frames(df.columns, request.current_data)
              after == [df EXCEPT !.columns = frames.reference]
          IN /\ reference_data_cache' =
                   [id \in DOMAIN reference_data_cache |->
                      IF reference_data_cache[id].object = df.object THEN after
                      ELSE reference_data_cache[id]]
             /\ IF r.raised
                THEN /\ svcEscaped' = {[at |-> "detect", exc |-> r.exc]}
                     /\ EndCall
                ELSE /\ svcResult' = {r.value}
                     /\ spc' = "metrics"
                     /\ reference_df' = {after}
                     /\ request' = [request EXCEPT !.current_data = frames.current]
                     /\ UNCHANGED <<svcEscaped, eventLoop>>
    /\ UNCHANGED <<detectors, response, calls, sourceContacts, nextFrame,
                   gauges, mlflowRuns>>
    /\ UNCHANGED detVars

\* Mutant of SvcMetrics: the sink's exception is noted and the call goes on.
SvcMetrics_continue ==
    /\ spc = "metrics"
    /\ \E sinkOk \in BOOLEAN, r \in svcResult :
          IF sinkOk
          THEN /\ gauges' =
                    Put(gauges, request.model_name,
                        [drift_score |-> r.drift_score,
                         drift_detected |-> IF r.drift_detected THEN 1 ELSE 0,
                         features |-> request.current_data])
               /\ UNCHANGED svcEscaped
          ELSE /\ svcEscaped' = {[at |-> "metrics", exc |-> "Exception"]}
               /\ UNCHANGED gauges
    /\ spc' = "mlflow"
    /\ UNCHANGED <<reference_data_cache, detectors, request, reference_df,
                   svcResult, response, calls, sourceContacts, nextFrame,
                   mlflowRuns, eventLoop>>
    /\ UNCHANGED detVars

\* self.update_metrics(...): no try block; the sink's set() may raise.
SvcMetrics ==
    /\ spc = "metrics"
    /\ \E sinkOk \in BOOLEAN, r \in svcResult :
          IF sinkOk
          THEN /\ gauges' =
                    Put(gauges, request.model_name,
                        [drift_score |-> r.drift_score,
                         drift_detected |-> IF r.drift_detected THEN 1 ELSE 0,
                         features |-> request.current_data])
               /\ spc' = "mlflow"
               /\ UNCHANGED <<svcEscaped, request, reference_df, svcResult,
                              eventLoop>>
          ELSE /\ svcEscaped' = {[at |-> "metrics", exc |-> "Exception"]}
               /\ EndCall
               /\ UNCHANGED gauges
    /\ UNCHANGED <<reference_data_cache, detectors, response, calls,
                   sourceContacts, nextFrame, mlflowRuns>>
    /\ UNCHANGED detVars

\* Mutant of SvcMlflow: the store's exception is not caught.
SvcMlflow_uncaught ==
    /\ spc = "mlflow"
    /\ \E storeOk \in BOOLEAN :
          IF storeOk
          THEN /\ mlflowRuns' = mlflowRuns + 1
               /\ spc' = "recommend"
               /\ UNCHANGED <<svcEscaped, request, reference_df, svcResult,
                              eventLoop>>
          ELSE /\ svcEscaped' = {[at |-> "mlflow", exc |-> "Exception"]}
               /\ EndCall
               /\ UNCHANGED mlflowRuns
    /\ UNCHANGED <<reference_data_cache, detectors, response, calls,
                   sourceContacts, nextFrame, gauges>>
    /\ UNCHANGED detVars

\* await self.log_to_mlflow(...): except Exception: logging.warning
SvcMlflow ==
    /\ spc = "mlflow"
    /\ \E storeOk \in BOOLEAN :
          mlflowRuns' = IF storeOk THEN mlflowRuns + 1 ELSE mlflowRuns
    /\ spc' = "recommend"
    /\ UNCHANGED <<reference_data_cache, detectors, request, reference_df,
                   svcResult, response, svcEscaped, calls, sourceContacts,
                   nextFrame, gauges, eventLoop>>
    /\ UNCHANGED detVars

\* recommendation = self.generate_recommendation(result); return the response
SvcReturn ==
    /\ spc = "recommend"
    /\ response' =
          {[drift_detected |-> r.drift_detected, drift_score |-> r.drift_score,
            drift_type |-> r.drift_type,
            features_affected |-> r.features_affected,
            confidence |-> r.confidence,
            recommendation |-> generate_recommendation(r)] : r \in svcResult}
    /\ EndCall
    /\ UNCHANGED <<reference_data_cache, detectors, svcEscaped, calls,
                   sourceContacts, nextFrame, gauges, mlflowRuns>>
    /\ UNCHANGED detVars

InitSvc ==
    /\ config = EmptyDict
    /\ reference = EmptyDict
    /\ current = {}
    /\ target_column = "None"
    /\ sameData = FALSE
    /\ pc = "done"
    /\ results = EmptyDict
    /\ acc = ZeroAcc
    /\ returned = {}
    /\ escaped = {}
    /\ raisedIn = {}
    /\ SvcInit

NextSvc ==
    \/ SvcRequest
    \/ SvcLoad
    \/ SvcFetch
    \/ SvcGetDetector
    \/ SvcDetect
    \/ SvcMetrics
    \/ SvcMlflow
    \/ SvcReturn

SpecSvc == InitSvc /\ [][NextSvc]_vars

----------------------------------------------------------------------------
(* generate_recommendation on any DriftResult: the service call stands at its
   recommendation step with a result of any field values. *)

DriftTypes ==
    {"no_drift", "covariate_drift", "concept_drift", "covariate_and_concept_drift"}

\* drift_score values at, just above and far from the 0.8 of the urgency
\* test, in hundredths.
RecommendScores ==
    {[num |-> 0, den |-> 1], [num |-> 80, den |-> 1], [num |-> 81, den |-> 1]}

DriftResults ==
    {[drift_detected |-> d, drift_score |-> sc, drift_type |-> t,
      features_affected |-> f, confidence |-> Confidence(sc),
      metadata |-> [individual_results |-> EmptyDict]] :
        d \in BOOLEAN, sc \in RecommendScores, t \in DriftTypes,
        f \in SUBSET Columns}

InitRec ==
    /\ config = EmptyDict
    /\ reference = EmptyDict
    /\ current = {}
    /\ target_column = "None"
    /\ sameData = FALSE
    /\ pc = "done"
    /\ results = EmptyDict
    /\ acc = ZeroAcc
    /\ returned = {}
    /\ escaped = {}
    /\ raisedIn = {}
    /\ request \in Requests
    /\ svcResult \in {{r} : r \in DriftResults}
    /\ spc = "recommend"
    /\ LET frame == [object |-> 1, columns |-> EmptyDict]
       IN /\ reference_data_cache = Put(EmptyDict, request.reference_data_id, frame)
          /\ reference_df = {frame}
    /\ detectors =
          Put(EmptyDict, request.model_name,
              [config |-> request.detection_config, created_in |-> 1])
    /\ response = {}
    /\ svcEscaped = {}
    /\ calls = 1
    /\ sourceContacts = 1
    /\ nextFrame = 1
    /\ gauges =
          Put(EmptyDict, request.model_name,
              [drift_score |-> (CHOOSE r \in svcResult : TRUE).drift_score,
               drift_detected |->
                   IF (CHOOSE r \in svcResult : TRUE).drift_detected THEN 1 ELSE 0,
               features |-> request.current_data])
    /\ mlflowRuns \in {0, 1}
    /\ eventLoop = IdleLoop

SpecRec == InitRec /\ [][SvcReturn]_vars

----------------------------------------------------------------------------
(* Concurrent detect calls.  detect_drift_endpoint is an async def, so every
   request is a task of the one asyncio event loop; a task keeps the loop
   until it finishes or suspends at an await. *)

\* The requests in flight, in their order of arrival.
TaskOrder == <<"t1", "t2">>

Tasks == Image(TaskOrder)

\* Mutant of YieldsAt: the load awaits real I/O between its cache lookup and
\* its cache store.
YieldsAt_fetch(p) == p = "fetch"

\* Whether a task at position p suspends.  The awaits of detect_drift are on
\* load_reference_data and log_to_mlflow, whose bodies hold no await of their
\* own, so they run inline: the task never gives up the loop.
YieldsAt(p) == FALSE

\* A request arrives while the loop may be busy with another call: uvicorn
\* makes it a task, which waits its turn.
ConcSubmit ==
    /\ Cardinality(eventLoop.submitted) < Len(TaskOrder)
    /\ \E req \in Requests :
          LET t == TaskOrder[Cardinality(eventLoop.submitted) + 1]
          IN eventLoop' =
                [eventLoop EXCEPT !.submitted = @ \cup {t},
                                  !.queued = @ \cup {[task |-> t, request |-> req]}]
    /\ UNCHANGED <<reference_data_cache, detectors, spc, request, reference_df,
                   svcResult, response, svcEscaped, calls, sourceContacts,
                   nextFrame, gauges, mlflowRuns>>
    /\ UNCHANGED detVars

\* The loop switches tasks: when the running call has ended or is suspended
\* at an await, a queued task starts (as SvcRequest) or a parked one resumes
\* with its locals.
ConcSchedule ==
    /\ spc = "idle" \/ YieldsAt(spc)
    /\ LET parkedNow ==
              IF spc = "idle" THEN eventLoop.parked
              ELSE eventLoop.parked \cup
                     {[task |-> eventLoop.running, spc |-> spc,
                       request |-> request, reference_df |-> reference_df,
                       svcResult |-> svcResult]}
       IN \/ \E q \in eventLoop.queued :
                /\ request' = q.request
                /\ spc' = "load"
                /\ reference_df' = {}
                /\ svcResult' = {}
                /\ response' = {}
                /\ svcEscaped' = {}
                /\ calls' = calls + 1
                /\ eventLoop' =
                       [eventLoop EXCEPT !.queued = @ \ {q}, !.parked = parkedNow,
                                         !.running = q.task]
          \/ \E c \in parkedNow :
                /\ request' = c.request
                /\ spc' = c.spc
                /\ reference_df' = c.reference_df
                /\ svcResult' = c.svcResult
                /\ eventLoop' =
                       [eventLoop EXCEPT !.parked = parkedNow \ {c},
                                         !.running = c.task]
                /\ UNCHANGED <<response, svcEscaped, calls>>
    /\ UNCHANGED <<reference_data_cache, detectors, sourceContacts, nextFrame,
                   gauges, mlflowRuns>>
    /\ UNCHANGED detVars

NextConc ==
    \/ ConcSubmit
    \/ ConcSchedule
    \/ SvcLoad
    \/ SvcFetch
    \/ SvcGetDetector
    \/ SvcDetect
    \/ SvcMetrics
    \/ SvcMlflow
    \/ SvcReturn

SpecConc == InitSvc /\ [][NextConc]_vars

----------------------------------------------------------------------------
(* The claims *)

\* The default weights as the specification lists them (section 4.7).
DefaultWeight ==
    [ks_test |-> 20, psi |-> 25, mmd |-> 20, isolation_forest |-> 15,
     covariance_drift |-> 10, classifier_drift |-> 10]

RECURSIVE SumWeights(_)
SumWeights(S) ==
    IF S = {} THEN 0
    ELSE LET m == CHOOSE x \in S : TRUE IN DefaultWeight[m] + SumWeights(S \ {m})

\* The methods of a results dict that report drift.
Voters(res) == {m \in DOMAIN res : res[m].drift_detected}

Errored(res) == {m \in DOMAIN res : "error" \in DOMAIN res[m]}

\* res with method m's own drift_detected flag set to b.
SetFlag(res, m, b) ==
    [res EXCEPT ![m] = [@ EXCEPT !.drift_detected = b]]

\* The largest and the smallest per-method drift_score of a results dict
\* (0 when it is empty).
MaxMethodScore(res) ==
    IF DOMAIN res = {} THEN 0 ELSE MaxOf({res[m].drift_score : m \in DOMAIN res})

MinMethodScore(res) ==
    IF DOMAIN res = {} THEN 0
    ELSE -MaxOf({-res[m].drift_score : m \in DOMAIN res})

\* C1 (as claimed): whenever the fitting or statistical routine of any of the
\* six detectors has raised, no exception has left detect_drift and that
\* method is recorded in the results with an error string.
C1_MethodFailureNeverAborts ==
    \A m \in raisedIn :
        /\ escaped = {}
        /\ m \in DOMAIN results
        /\ "error" \in DOMAIN results[m]

\* C2: once the covariance envelope has raised, detect_drift is not aborted:
\* the covariance_drift entry carries the error with drift_detected = false
\* and drift_score = 0, the run goes on to return a DriftResult, and the
\* ensemble drift_detected is the vote of the other methods alone.
C2_CovarianceFailureRecovered ==
    "covariance_drift" \in raisedIn =>
        /\ escaped = {}
        /\ pc \in {"classifier_drift", "ensemble", "done"}
        /\ "covariance_drift" \in DOMAIN results
        /\ "error" \in DOMAIN results["covariance_drift"]
        /\ results["covariance_drift"].error # ""
        /\ ~results["covariance_drift"].drift_detected
        /\ results["covariance_drift"].drift_score = 0
        /\ pc = "done" =>
              /\ returned # {}
              /\ \A r \in returned :
                    /\ r.drift_detected =
                          (SumWeights(Voters(results) \ {"covariance_drift"}) > 50)
                    /\ r.metadata.individual_results = results

C2_Witness ==
    /\ pc = "done"
    /\ "covariance_drift" \in raisedIn
    /\ \E r \in returned : r.drift_detected

\* C3 (as claimed): when every method of the results has errored, the
\* DriftResult has score 0, drift_detected = false, and its metadata holds a
\* flag (a key beside individual_results) telling total method failure.
C3_TotalFailureFlagged ==
    \A r \in returned :
        (DOMAIN results # {} /\ Errored(results) = DOMAIN results) =>
            /\ r.drift_score.num = 0
            /\ ~r.drift_detected
            /\ DOMAIN r.metadata \ {"individual_results"} # {}

\* C4 (as claimed): every DriftResult has 0 <= drift_score <= 1.
C4_ScoreInUnitInterval ==
    \A r \in returned :
        /\ 0 <= r.drift_score.num
        /\ r.drift_score.num <= 100 * r.drift_score.den

\* C4 (amended): every DriftResult has a drift_score >= 0 that lies between
\* the smallest and the largest per-method drift_score, hence drift_score <= 1
\* whenever every per-method score is <= 1.
C4_ScoreWithinMethodScores ==
    \A r \in returned :
        /\ r.drift_score.den > 0
        /\ 0 <= r.drift_score.num
        /\ MinMethodScore(results) * r.drift_score.den <= r.drift_score.num
        /\ r.drift_score.num <= MaxMethodScore(results) * r.drift_score.den
        /\ MaxMethodScore(results) <= 100 =>
              r.drift_score.num <= 100 * r.drift_score.den

C4_Witness ==
    \E r \in returned :
        /\ r.drift_score.num > 100 * r.drift_score.den
        /\ DOMAIN results = Methods

\* C5: in every DriftResult confidence = min(drift_score, 1.0): the score
\* itself when it is at most 1, and 1 otherwise.
C5_ConfidenceIsMinOfScoreAndOne ==
    \A r \in returned :
        /\ r.confidence.den > 0
        /\ IF r.drift_score.num <= 100 * r.drift_score.den
           THEN r.confidence.num * r.drift_score.den
                    = r.drift_score.num * r.confidence.den
           ELSE r.confidence.num = 100 * r.confidence.den

C5_Witness ==
    \E r \in returned :
        /\ r.drift_score.num > 100 * r.drift_score.den
        /\ r.confidence.num = 100 * r.confidence.den
        /\ r.drift_detected

\* C6 (as claimed): a method whose weight is 0 in the detector's config is
\* masked: the ensemble drift_detected is the same whether that method's
\* own flag is true or false.
C6_ZeroWeightMasks ==
    \A r \in returned :
        \A m \in DOMAIN results \cap DOMAIN config :
            config[m] = 0 =>
                \A b \in BOOLEAN :
                    _ensemble_detection(SetFlag(results, m, b)).drift_detected
                        = r.drift_detected

\* covariate / concept as the claim C7 words them.
ClaimedDriftType(res) ==
    LET covariate ==
            \E m \in {"ks_test", "psi", "mmd"} \cap DOMAIN res : res[m].drift_detected
        concept ==
            /\ "classifier_drift" \in DOMAIN res
            /\ res["classifier_drift"].drift_detected
    IN CASE covariate /\ concept -> "covariate_and_concept_drift"
         [] covariate /\ ~concept -> "covariate_drift"
         [] ~covariate /\ concept -> "concept_drift"
         [] ~covariate /\ ~concept -> "no_drift"

\* C7: drift_type is decided by the flags of ks_test, psi, mmd (covariate)
\* and classifier_drift (concept) alone, and the flags of isolation_forest
\* and covariance_drift never change it.
C7_DriftTypeFromFlags ==
    \A r \in returned :
        /\ r.drift_type = ClaimedDriftType(results)
        /\ \A m \in {"isolation_forest", "covariance_drift"} \cap DOMAIN results :
              \A b \in BOOLEAN :
                  _ensemble_detection(SetFlag(results, m, b)).drift_type
                      = r.drift_type

C7_Witness ==
    \E r \in returned :
        /\ r.drift_type = "concept_drift"
        /\ "isolation_forest" \in Voters(results)
        /\ "covariance_drift" \in Voters(results)

\* C8: without a target column the classifier does not run: the results hold
\* no classifier_drift entry, the vote and the weight are those of the other
\* five methods, and drift_type is no_drift or covariate_drift.
C8_NoTargetNoClassifier ==
    target_column \in {"None", ""} =>
        /\ "classifier_drift" \notin DOMAIN results
        /\ "classifier_drift" \notin raisedIn
        /\ \A r \in returned :
              /\ "classifier_drift" \notin DOMAIN r.metadata.individual_results
              /\ acc.total_weight = SumWeights(Methods \ {"classifier_drift"})
              /\ acc.drift_votes
                    = SumWeights(Voters(results) \ {"classifier_drift"})
              /\ r.drift_type \in {"no_drift", "covariate_drift"}

C8_Witness ==
    /\ pc = "done"
    /\ target_column = "None"
    /\ \E r \in returned : r.drift_type = "covariate_drift" /\ r.drift_detected

\* C9 (as claimed): a detect call whose reference id the data source does
\* not know never gets past the load: no detector is fetched or created and
\* no detection, metrics, logging or response step is reached.
C9_UnknownReferenceFails ==
    spc \in {"get_detector", "detect", "metrics", "mlflow", "recommend"} =>
        request.reference_data_id \in KnownIds

\* C10: no step removes or replaces an entry of the reference cache, and a
\* load of a cached id hands back that very entry without contacting the
\* data source.
C10_CacheNeverExpires ==
    [][/\ \A id \in DOMAIN reference_data_cache :
             /\ id \in DOMAIN reference_data_cache'
             /\ reference_data_cache'[id] = reference_data_cache[id]
       /\ (spc = "load" /\ request.reference_data_id \in DOMAIN reference_data_cache) =>
             /\ reference_df' = {reference_data_cache[request.reference_data_id]}
             /\ sourceContacts' = sourceContacts
             /\ nextFrame' = nextFrame
             /\ spc' = "get_detector"]_vars

\* The second call found its reference id cached by the first.
C10_Witness ==
    /\ calls = 2
    /\ sourceContacts = 1
    /\ spc = "get_detector"
    /\ reference_df = {reference_data_cache[request.reference_data_id]}

\* C11: a model's detector entry, once created (by the get-or-create step of
\* a call for that model, with that call's detection_config), is never
\* replaced: it stays the object built first, whatever detection_config a
\* later request for the model carries.
C11_DetectorCreatedOnce ==
    [][/\ \A m \in DOMAIN detectors :
             /\ m \in DOMAIN detectors'
             /\ detectors'[m] = detectors[m]
       /\ \A m \in DOMAIN detectors' \ DOMAIN detectors :
             /\ spc = "get_detector"
             /\ m = request.model_name
             /\ detectors'[m].config = request.detection_config
             /\ detectors'[m].created_in = calls]_vars

\* A second request for the model carries another detection_config and
\* finds the detector of the first call.
C11_Witness ==
    /\ spc = "detect"
    /\ calls = 2
    /\ request.model_name \in DOMAIN detectors
    /\ detectors[request.model_name].created_in = 1
    /\ detectors[request.model_name].config # request.detection_config

\* C12: a failure of the metrics sink does not end the call: no detect call
\* ends with the sink's exception in place of the response.
C12_MetricsFailureHarmless ==
    \A e \in svcEscaped : e.at # "metrics"

\* The response the service builds from a DriftResult.
ResponseOf(r) ==
    [drift_detected |-> r.drift_detected, drift_score |-> r.drift_score,
     drift_type |-> r.drift_type, features_affected |-> r.features_affected,
     confidence |-> r.confidence, recommendation |-> generate_recommendation(r)]

\* C13: whether the tracking store accepts the run or fails, the logging
\* step leaves the call alive with its DriftResult untouched and hands over
\* to the recommendation step, and the response returned there is the one
\* built from that DriftResult alone.
C13_LogFailureSwallowed ==
    [][/\ spc = "mlflow" =>
             /\ spc' = "recommend"
             /\ svcResult' = svcResult
             /\ svcEscaped' = svcEscaped
             /\ request' = request
       /\ spc = "recommend" =>
             /\ response' = {ResponseOf(r) : r \in svcResult}
             /\ svcEscaped' = svcEscaped]_vars

\* The first call returned its response although the store took no run.
C13_Witness ==
    /\ calls = 1
    /\ spc = "idle"
    /\ svcEscaped = {}
    /\ response # {}
    /\ mlflowRuns = 0
    /\ DOMAIN gauges # {}

\* The locals of a call past its load and past its detector lookup are the
\* entries the shared maps hold for its keys.
ObservesEntries(p, req, df) ==
    /\ p \in {"get_detector", "detect", "metrics", "mlflow", "recommend"} =>
          /\ req.reference_data_id \in DOMAIN reference_data_cache
          /\ df = {reference_data_cache[req.reference_data_id]}
    /\ p \in {"detect", "metrics", "mlflow", "recommend"} =>
          req.model_name \in DOMAIN detectors

\* C14: with detect calls arriving while others are in flight, an entry of
\* the reference cache or of the detector map is written once and never
\* replaced, the only key a step adds is the one of the request it serves,
\* and every call in flight works with the entries the maps hold.
C14_ExclusivePerKey ==
    /\ [](/\ ObservesEntries(spc, request, reference_df)
          /\ \A c \in eventLoop.parked :
                ObservesEntries(c.spc, c.request, c.reference_df))
    /\ [][/\ \A id \in DOMAIN reference_data_cache :
                /\ id \in DOMAIN reference_data_cache'
                /\ reference_data_cache'[id] = reference_data_cache[id]
          /\ \A id \in DOMAIN reference_data_cache' \ DOMAIN reference_data_cache :
                id = request.reference_data_id
          /\ \A m \in DOMAIN detectors :
                /\ m \in DOMAIN detectors'
                /\ detectors'[m] = detectors[m]
          /\ \A m \in DOMAIN detectors' \ DOMAIN detectors :
                m = request.model_name]_vars

\* A call for a model and reference id is under way, having created both
\* entries, while a second call for the same two keys waits in the loop.
C14_Witness ==
    /\ spc = "detect"
    /\ eventLoop.running = "t1"
    /\ \E q \in eventLoop.queued :
          /\ q.request.model_name = request.model_name
          /\ q.request.reference_data_id = request.reference_data_id
          /\ q.request.detection_config # request.detection_config

C16_UnmatchedColumnIgnored ==
    \A e \in escaped :
        e.method \in {"ks_test", "psi"} => e.exc # "KeyError"

\* C17: for a DriftResult with drift_detected = false the recommendation is
\* the no-action sentence and nothing else, whatever its drift_type,
\* drift_score and features_affected.
C17_NoDriftNoAction ==
    \A resp \in response :
        ~resp.drift_detected =>
            resp.recommendation = <<Segment("no_action", 0, {})>>

\* A result without drift that names both drift kinds, scores above 0.8 and
\* lists features has been answered.
C17_Witness ==
    \E resp \in response :
        /\ ~resp.drift_detected
        /\ resp.drift_type = "covariate_and_concept_drift"
        /\ resp.drift_score.num > 80 * resp.drift_score.den
        /\ resp.features_affected # {}
        /\ resp.recommendation = <<Segment("no_action", 0, {})>>

\* C18 (as claimed): a run on one dataset given as reference and as current
\* returns a DriftResult with drift_detected = false and drift_type =
\* no_drift, every distribution test scoring 0 and the two contamination
\* based detectors at most their contamination of 0.1.
C18_IdentityNoDrift ==
    sameData =>
        /\ escaped = {}
        /\ \A r \in returned :
              /\ ~r.drift_detected
              /\ r.drift_type = "no_drift"
              /\ 10 * r.drift_score.num <= 100 * r.drift_score.den
        /\ \A m \in DOMAIN results \cap {"ks_test", "psi", "mmd"} :
              results[m].drift_score = 0
        /\ \A m \in DOMAIN results \cap {"isolation_forest", "covariance_drift"} :
              results[m].drift_score <= 10

\* The sum of drift_score * weight over the methods of S, in
\* ten-thousandths.
RECURSIVE SumScores(_, _)
SumScores(res, S) ==
    IF S = {} THEN 0
    ELSE LET m == CHOOSE x \in S : TRUE
         IN res[m].drift_score * DefaultWeight[m] + SumScores(res, S \ {m})

\* C19 (as claimed): a method whose result carries an error adds nothing to
\* the normalisation: total_weight is the weight of the methods recorded
\* without error, and the drift_score returned is their weighted mean
\* (0 when there is none), while the errored entry stays in the results.
C19_ErroredExcludedFromScore ==
    \A r \in returned :
        LET res == r.metadata.individual_results
            ran == DOMAIN res \ Errored(res)
        IN /\ acc.total_weight = SumWeights(ran)
           /\ acc.weighted_score = SumScores(res, ran)
           /\ r.drift_score.num * (IF ran = {} THEN 1 ELSE SumWeights(ran))
                 = SumScores(res, ran) * r.drift_score.den

\* C20 (as claimed): whenever the methods reporting drift hold more than
\* half of the total weight of the methods that ran without error, the
\* ensemble drift_detected is true.
C20_MajorityOfAvailableWeight ==
    \A r \in returned :
        LET res == r.metadata.individual_results
            ran == DOMAIN res \ Errored(res)
        IN 2 * SumWeights(Voters(res)) > SumWeights(ran) => r.drift_detected

\* C21: the ensemble drift_detected is true exactly when the built-in
\* weights of the methods reporting drift sum to more than 0.5; a sum of
\* exactly 0.5 gives false.
C21_DriftIffVotesAboveHalf ==
    \A r \in returned :
        r.drift_detected <=>
            SumWeights(Voters(r.metadata.individual_results)) > 50

\* Voters holding exactly 0.5 (ks_test, mmd and covariance_drift) have been
\* answered with drift_detected = false.
C21_Witness ==
    \E r \in returned :
        /\ Voters(r.metadata.individual_results)
              = {"ks_test", "mmd", "covariance_drift"}
        /\ ~r.drift_detected

\* The methods whose entry adds to weighted_score and total_weight.
Contributing(res) == {m \in DOMAIN res : "drift_score" \in DOMAIN res[m]}

\* C22: the drift_score returned is a quotient with a non-zero divisor;
\* it is the weighted mean of the contributing methods' drift scores when
\* their weights sum to more than 0, and 0 when no method contributed.
C22_ScoreIsWeightedMean ==
    \A r \in returned :
        LET res == r.metadata.individual_results
            W == SumWeights(Contributing(res))
            S == SumScores(res, Contributing(res))
        IN /\ r.drift_score.den # 0
           /\ acc.total_weight = W
           /\ acc.weighted_score = S
           /\ W > 0 => r.drift_score.num * W = S * r.drift_score.den
           /\ W = 0 => r.drift_score.num = 0

\* Three methods of different scores, one of them errored, have been
\* averaged.
C22_Witness ==
    \E r \in returned :
        LET res == r.metadata.individual_results
        IN /\ DOMAIN res = {"psi", "mmd", "covariance_drift"}
           /\ Errored(res) = {"covariance_drift"}
           /\ res["psi"].drift_score # res["mmd"].drift_score
           /\ r.drift_score.num * SumWeights(DOMAIN res)
                 = SumScores(res, DOMAIN res) * r.drift_score.den
           /\ r.drift_score.num > 0

\* C23: features_affected of the DriftResult is the set of the columns whose
\* PSI score, as the psi method recorded it, is above 0.1, no more and no
\* less; it is empty when psi recorded no scores.
C23_FeaturesArePsiAboveTenth ==
    \A r \in returned :
        LET res == r.metadata.individual_results
        IN r.features_affected =
              IF "psi" \in DOMAIN res /\ "psi_scores" \in DOMAIN res["psi"]
              THEN {f \in DOMAIN res["psi"].psi_scores : res["psi"].psi_scores[f] > 10}
              ELSE {}

\* One column at a PSI of exactly 0.1 and one above it: only the second is
\* listed, although other methods reported drift too.
C23_Witness ==
    \E r \in returned :
        LET res == r.metadata.individual_results
        IN /\ DOMAIN res["psi"].psi_scores = {"f1", "f2"}
           /\ res["psi"].psi_scores["f1"] = 10
           /\ res["psi"].psi_scores["f2"] > 10
           /\ r.features_affected = {"f2"}
           /\ res["ks_test"].drift_detected

\* The detectors a run of detect_drift calls: the five unconditional ones
\* and the classifier when a target column is given.
Selected ==
    {"ks_test", "psi", "mmd", "isolation_forest", "covariance_drift"}
        \cup (IF Truthy(target_column) THEN {"classifier_drift"} ELSE {})

\* C24: when the aggregation is about to start, and in every DriftResult
\* built, the results hold an outcome (a result or a caught error) of every
\* detector of the run; and the aggregator's sums and the DriftResult are
\* written by the aggregation step only.
C24_NoPartialAggregation ==
    /\ [](/\ pc = "ensemble" => DOMAIN results = Selected
          /\ \A r \in returned :
                DOMAIN r.metadata.individual_results = Selected)
    /\ [][(acc' # acc \/ returned' # returned) => pc = "ensemble"]_vars

\* A DriftResult built from six outcomes, two of them caught errors.
C24_Witness ==
    \E r \in returned :
        /\ DOMAIN r.metadata.individual_results = Methods
        /\ Errored(r.metadata.individual_results)
              = {"covariance_drift", "classifier_drift"}

\* The kinds of the segments of a recommendation, in order.
Kinds(rec) == [i \in DOMAIN rec |-> rec[i].seg]

\* C25 (as claimed): for a result with drift_detected = true the
\* recommendation has the retrain segment, with N = len(features_affected),
\* exactly when drift_type is covariate_drift or
\* covariate_and_concept_drift, and the update-model segment exactly when
\* drift_type is concept_drift or covariate_and_concept_drift.
C25_SegmentsFollowDriftType ==
    \A resp \in response :
        resp.drift_detected =>
            /\ (\E i \in DOMAIN resp.recommendation :
                    resp.recommendation[i] =
                        Segment("retrain", Cardinality(resp.features_affected), {}))
                 <=> resp.drift_type \in
                        {"covariate_drift", "covariate_and_concept_drift"}
            /\ (\E i \in DOMAIN resp.recommendation :
                    resp.recommendation[i].seg = "update_model")
                 <=> resp.drift_type \in
                        {"concept_drift", "covariate_and_concept_drift"}

\* C26 (as claimed): for a result with drift detected, a drift_score above
\* 0.8 puts the urgency flag first in the recommendation, and a drift_score
\* of at most 0.8 gives no urgency flag.
C26_UrgencyFirst ==
    \A resp \in response :
        resp.drift_detected =>
            IF resp.drift_score.num > 80 * resp.drift_score.den
            THEN Kinds(resp.recommendation)[1] = "urgent"
            ELSE \A i \in DOMAIN resp.recommendation :
                    resp.recommendation[i].seg # "urgent"

\* C27: a DriftResult of the aggregator with drift_detected = true has
\* drift_type covariate_drift or covariate_and_concept_drift, and its
\* recommendation is never the "Monitor closely." fallback.
C27_DriftImpliesCovariate ==
    \A r \in returned :
        r.drift_detected =>
            /\ r.drift_type \in {"covariate_drift", "covariate_and_concept_drift"}
            /\ generate_recommendation(r) # <<Segment("monitor_closely", 0, {})>>

\* Drift was detected with isolation_forest, covariance_drift and
\* classifier_drift all voting and a single distribution test beside them.
C27_Witness ==
    \E r \in returned :
        /\ r.drift_detected
        /\ Voters(r.metadata.individual_results) =
              {"ks_test", "isolation_forest", "covariance_drift", "classifier_drift"}
        /\ r.drift_type = "covariate_and_concept_drift"

\* C28: in every DriftResult features_affected is non-empty exactly when
\* the psi method reported drift, and a non-empty features_affected comes
\* with drift_type covariate_drift or covariate_and_concept_drift.
C28_FeaturesIffPsiDrift ==
    \A r \in returned :
        LET res == r.metadata.individual_results
        IN /\ r.features_affected # {} <=>
                 ("psi" \in DOMAIN res /\ res["psi"].drift_detected)
           /\ r.features_affected # {} =>
                 r.drift_type \in {"covariate_drift", "covariate_and_concept_drift"}

\* psi alone reported drift, on one of two columns: the feature is listed
\* and the type is covariate_drift, without an ensemble drift.
C28_Witness ==
    \E r \in returned :
        /\ Voters(r.metadata.individual_results) = {"psi"}
        /\ Cardinality(DOMAIN r.metadata.individual_results["psi"].psi_scores) = 2
        /\ Cardinality(r.features_affected) = 1
        /\ r.drift_type = "covariate_drift"
        /\ ~r.drift_detected

\* C29: in a service call the classifier detector leaves no entry in the
\* results, the drift_type of the DriftResult and of the response is
\* no_drift or covariate_drift, and no response carries the concept-drift
\* segment.
C29_ServiceNeverConcept ==
    /\ \A r \in svcResult :
          /\ "classifier_drift" \notin DOMAIN r.metadata.individual_results
          /\ r.drift_type \in {"no_drift", "covariate_drift"}
    /\ \A resp \in response :
          /\ resp.drift_type \in {"no_drift", "covariate_drift"}
          /\ \A i \in DOMAIN resp.recommendation :
                resp.recommendation[i].seg # "update_model"

\* The service has answered a request with drift_type covariate_drift.
C29_Witness ==
    \E resp \in response :
        /\ resp.drift_type = "covariate_drift"
        /\ spc = "idle"
        /\ svcEscaped = {}

\* The order of the steps of one service call; every step may also be the
\* call's last.
StepOrder ==
    {<<"idle", "load">>, <<"load", "get_detector">>, <<"load", "fetch">>,
     <<"fetch", "get_detector">>, <<"get_detector", "detect">>,
     <<"detect", "metrics">>, <<"metrics", "mlflow">>,
     <<"mlflow", "recommend">>, <<"recommend", "idle">>,
     <<"fetch", "idle">>, <<"detect", "idle">>, <<"metrics", "idle">>}

\* C30: a service call moves through its steps in the one order load,
\* detector, detection, metrics, logging, recommendation, return; metrics
\* and tracking records are written by their own step only and only for a
\* call that holds a DriftResult; a failure (of the load, the detection or
\* the metrics update) ends the call at once without response, metrics or
\* tracking record, and leaves the detector map as it is.
C30_StepOrderAndFailure ==
    [][/\ spc' # spc => <<spc, spc'>> \in StepOrder
       /\ gauges' # gauges => (spc = "metrics" /\ svcResult # {})
       /\ mlflowRuns' # mlflowRuns => (spc = "mlflow" /\ svcResult # {})
       /\ response' \notin {{}, response} => spc = "recommend"
       /\ (svcEscaped' # {} /\ svcEscaped = {}) =>
             /\ spc \in {"fetch", "detect", "metrics"}
             /\ spc' = "idle"
             /\ response' = {}
             /\ spc # "metrics" => gauges' = gauges
             /\ mlflowRuns' = mlflowRuns
             /\ detectors' = detectors]_vars

\* The first call failed in the detection: its detector is registered and
\* there is no metrics record, no tracking record and no response.
C30_Witness ==
    /\ calls = 1
    /\ spc = "idle"
    /\ \E e \in svcEscaped : e.at = "detect"
    /\ DOMAIN detectors # {}
    /\ gauges = EmptyDict
    /\ mlflowRuns = 0
    /\ response = {}

====
